---------------------------- MODULE Spec2Model ----------------------------
(***************************************************************************)
(* Model of the two data-transform functions of src/app.py:                *)
(*   calculate_campaign_metrics (lines 91-117) and                         *)
(*   optimize_budget            (lines 119-149).                           *)
(*                                                                         *)
(* Numbers.  The program computes in floating point.  Money and call       *)
(* counts are modelled as integers and every ratio column as an exact      *)
(* fraction [num, den] compared by cross-multiplication; for the values    *)
(* the model enumerates (denominators 1, 2, 10) the floating-point results *)
(* are exact, so the comparisons of the code and of the model agree.       *)
(***************************************************************************)
EXTENDS Integers, Sequences, FiniteSets, TLC

VARIABLES
    \* ---- optimize_budget: parameters
    campaign_stats,     \* table: campaign name -> row of statistics
    daily_budget,
    min_calls,
    min_roas,
    \* ---- optimize_budget: locals and position
    pc,                 \* "filter", "seed", "incr", "done" ("idle": not running)
    bound,              \* the names of the locals that have been assigned
    profitable,         \* the ranked index of the qualifying campaigns (a sequence)
    allocation,         \* dict campaign -> calls
    remaining_budget,
    seed_i,             \* position of the seeding for-loop in profitable
    ret,                \* the returned pair
    \* ---- calculate_campaign_metrics: parameters, position and result
    df,                 \* sequence of daily records
    agency,
    agg_pc,             \* "call", "done" ("idle": not running)
    grouped

vars == <<campaign_stats, daily_budget, min_calls, min_roas, pc, bound,
          profitable, allocation, remaining_budget, seed_i, ret, df, agency, agg_pc, grouped>>

optVars == <<campaign_stats, daily_budget, min_calls, min_roas, pc, bound,
             profitable, allocation, remaining_budget, seed_i, ret>>
aggVars == <<df, agency, agg_pc, grouped>>

-----------------------------------------------------------------------------
(* Bounds of the enumerated inputs *)
MaxBudget   == 4
MaxCost     == 2
MaxCalls    == 2
MaxMinCalls == 2
MaxRows     == 2

Campaigns    == {"A", "B"}
Agencies     == {"X", "Y"}
DaysValues   == {1, 2}
ProfitValues == {0, 1}

-----------------------------------------------------------------------------
(* Values *)
None  == "None"          \* Python's None, as an argument

Frac(n, d) == [num |-> n, den |-> d]
\* a >= b for fractions with positive denominators
FracGE(a, b) == a.num * b.den >= b.num * a.den
\* n < f for an integer n and a fraction f with positive denominator
IntLT(n, f) == n * f.den < f.num
FracSub(a, b) == Frac(a.num * b.den - b.num * a.den, a.den * b.den)

RoasValues    == {Frac(1, 2), Frac(3, 2)}
MinRoasValues == {Frac(1, 1), Frac(2, 1)}

\* a returned Python object: None, or a dict with its items
PyNone    == [type |-> "NoneType"]
\* nothing returned yet
NoReturn  == [allocation |-> [type |-> "pending"], leftover |-> 0]
PyDict(d) == [type |-> "dict", items |-> d]

EmptyDict == [c \in {} |-> 0]
\* dict.get(key, 0)
Get(d, key) == IF key \in DOMAIN d THEN d[key] ELSE 0
\* d[key] = value
Put(d, key, value) == [c \in (DOMAIN d) \cup {key} |-> IF c = key THEN value ELSE d[c]]

-----------------------------------------------------------------------------
(* optimize_budget *)

Cost_Per_Call(c) == campaign_stats[c].Cost_Per_Call

\* the ROAS filter left out: every campaign of the table passes
Qualifies_NoFilter(c) == c \in DOMAIN campaign_stats

\* campaign_stats["ROAS"] >= min_roas
Qualifies(c) == FracGE(campaign_stats[c].ROAS, min_roas)

Profitable == {c \in DOMAIN campaign_stats : Qualifies(c)}

Perms(S) == {s \in [1..Cardinality(S) -> S] : \A a, b \in 1..Cardinality(S) : a # b => s[a] # s[b]}

\* sort_values("Profit_Per_Call", ascending=False): every order of S that is
\* descending in Profit_Per_Call.  The order of equal keys is whatever the
\* library's sort leaves, so each such order is a possible result.
SortValues(S) ==
    {s \in Perms(S) : \A a, b \in 1..Cardinality(S) :
        a < b => campaign_stats[s[a]].Profit_Per_Call >= campaign_stats[s[b]].Profit_Per_Call}

\* an empty mapping returned in place of None
ReturnNone_EmptyDict ==
    /\ pc = "filter"
    /\ Profitable = {}
    /\ ret' = [allocation |-> PyDict(EmptyDict), leftover |-> daily_budget]
    /\ pc' = "done"
    /\ UNCHANGED <<campaign_stats, daily_budget, min_calls, min_roas, bound, profitable,
                   allocation, remaining_budget, seed_i>>
    /\ UNCHANGED aggVars

\* return None, daily_budget
ReturnNone ==
    /\ pc = "filter"
    /\ Profitable = {}
    /\ ret' = [allocation |-> PyNone, leftover |-> daily_budget]
    /\ pc' = "done"
    /\ UNCHANGED <<campaign_stats, daily_budget, min_calls, min_roas, bound, profitable,
                   allocation, remaining_budget, seed_i>>
    /\ UNCHANGED aggVars

\* filter, rank, allocation = {}, remaining_budget = daily_budget
Rank ==
    /\ pc = "filter"
    /\ Profitable # {}
    /\ profitable' \in SortValues(Profitable)
    /\ allocation' = EmptyDict
    /\ remaining_budget' = daily_budget
    /\ seed_i' = 1
    /\ bound' = {"profitable", "allocation", "remaining_budget"}
    /\ pc' = "seed"
    /\ UNCHANGED <<campaign_stats, daily_budget, min_calls, min_roas, ret>>
    /\ UNCHANGED aggVars

\* the seeding's budget test left out
SeedAffordable_NoTest(c) == c \in DOMAIN campaign_stats

\* remaining_budget >= cost * min_calls
SeedAffordable(c) == remaining_budget >= Cost_Per_Call(c) * min_calls

\* one iteration of the seeding for-loop
Seed ==
    /\ pc = "seed"
    /\ seed_i <= Len(profitable)
    /\ LET campaign == profitable[seed_i]
           cost == Cost_Per_Call(campaign)
       IN  IF SeedAffordable(campaign)
           THEN /\ allocation' = Put(allocation, campaign, min_calls)
                /\ remaining_budget' = remaining_budget - cost * min_calls
           ELSE UNCHANGED <<allocation, remaining_budget>>
    /\ seed_i' = seed_i + 1
    /\ pc' = IF seed_i = Len(profitable) THEN "incr" ELSE "seed"
    /\ UNCHANGED <<campaign_stats, daily_budget, min_calls, min_roas, bound, profitable, ret>>
    /\ UNCHANGED aggVars

\* the ceiling taken as twice the average daily calls
max_calls_Double(c) == Frac(2 * campaign_stats[c].Total_Calls, campaign_stats[c].Days_Active)

\* max_calls = Total_Calls / Days_Active * 1.5
max_calls(c) == Frac(3 * campaign_stats[c].Total_Calls, 2 * campaign_stats[c].Days_Active)

\* allocation.get(campaign, 0) < max_calls
BelowCeiling(c) == IntLT(Get(allocation, c), max_calls(c))

\* both ifs of the scan passed for the campaign
Eligible(c) == BelowCeiling(c) /\ remaining_budget >= Cost_Per_Call(c)

\* the scan without its break: any eligible campaign may be the one that is served
ScanHit_NoBreak(k) ==
    /\ k \in 1..Len(profitable)
    /\ Eligible(profitable[k])

\* the campaign at which the scan of profitable.index breaks: the first eligible one
ScanHit(k) ==
    /\ k \in 1..Len(profitable)
    /\ Eligible(profitable[k])
    /\ \A j \in 1..(k - 1) : ~Eligible(profitable[j])

\* one iteration of the while loop that allocates a call
IncrAllocate ==
    /\ pc = "incr"
    /\ remaining_budget > 0
    /\ \E k \in 1..Len(profitable) :
        /\ ScanHit(k)
        /\ LET campaign == profitable[k]
           IN  /\ allocation' = Put(allocation, campaign, Get(allocation, campaign) + 1)
               /\ remaining_budget' = remaining_budget - Cost_Per_Call(campaign)
    /\ UNCHANGED <<campaign_stats, daily_budget, min_calls, min_roas, pc, bound,
                   profitable, seed_i, ret>>
    /\ UNCHANGED aggVars

\* return allocation, remaining_budget
Return ==
    /\ ret' = [allocation |-> PyDict(allocation), leftover |-> remaining_budget]
    /\ pc' = "done"
    /\ UNCHANGED <<campaign_stats, daily_budget, min_calls, min_roas, bound, profitable,
                   allocation, remaining_budget, seed_i>>
    /\ UNCHANGED aggVars

\* "if not allocated: break" left out: the while loop goes round again
IncrBreak_NoBreak ==
    /\ pc = "incr"
    /\ remaining_budget > 0
    /\ \A k \in 1..Len(profitable) : ~Eligible(profitable[k])
    /\ UNCHANGED vars

\* a full scan allocated nothing: "if not allocated: break", then return
IncrBreak ==
    /\ pc = "incr"
    /\ remaining_budget > 0
    /\ \A k \in 1..Len(profitable) : ~Eligible(profitable[k])
    /\ Return

\* the while condition remaining_budget > 0 is false, then return
IncrExit ==
    /\ pc = "incr"
    /\ ~(remaining_budget > 0)
    /\ Return

-----------------------------------------------------------------------------
(* Inputs of optimize_budget *)

StatRows ==
    [ROAS : RoasValues, Cost_Per_Call : 0..MaxCost, Profit_Per_Call : ProfitValues,
     Total_Calls : 0..MaxCalls, Days_Active : DaysValues]

StatTables == UNION {[S -> StatRows] : S \in SUBSET Campaigns}

\* the two-campaign scenario of the specification's testable properties
ScenarioStats ==
    [c \in {"A", "B"} |->
        IF c = "A"
        THEN [ROAS |-> Frac(15, 10), Cost_Per_Call |-> 10, Profit_Per_Call |-> 5,
              Total_Calls |-> 100, Days_Active |-> 10]
        ELSE [ROAS |-> Frac(12, 10), Cost_Per_Call |-> 5, Profit_Per_Call |-> 1,
              Total_Calls |-> 50, Days_Active |-> 10]]

\* the scenario's call: budget=200, min_roas=1.0, min_calls=1
IsScenario ==
    /\ campaign_stats = ScenarioStats
    /\ daily_budget = 200
    /\ min_calls = 1
    /\ min_roas = Frac(1, 1)

AggIdle ==
    /\ df = <<>>
    /\ agency = None
    /\ agg_pc = "idle"
    /\ grouped = EmptyDict

OptStart ==
    /\ pc = "filter"
    /\ bound = {}
    /\ profitable = <<>>
    /\ allocation = EmptyDict
    /\ remaining_budget = 0
    /\ seed_i = 0
    /\ ret = NoReturn

Init ==
    /\ \/ /\ campaign_stats \in StatTables
          /\ daily_budget \in 0..MaxBudget
          /\ min_calls \in 1..MaxMinCalls
          /\ min_roas \in MinRoasValues
       \/ IsScenario
    /\ OptStart
    /\ AggIdle

Next == ReturnNone \/ Rank \/ Seed \/ IncrAllocate \/ IncrBreak \/ IncrExit

Spec == Init /\ [][Next]_vars

\* the function runs to completion once called: single-threaded, synchronous
FairSpec == Spec /\ WF_vars(Next)

-----------------------------------------------------------------------------
(* calculate_campaign_metrics *)

\* df[df["Agency"] == agency], applied when agency is given and is not "All"
FilterAgency(d, a) ==
    IF a # None /\ a # "All"
    THEN SelectSeq(d, LAMBDA r : r.Agency = a)
    ELSE d

\* the rows of one group of groupby("Campaign")
Group(d, c) == SelectSeq(d, LAMBDA r : r.Campaign = c)

\* the groups' keys
GroupKeys(d) == {d[k].Campaign : k \in 1..Len(d)}

\* the aggregation "sum" of one column over the rows of a group
RECURSIVE ColSum(_, _)
ColSum(rows, col) ==
    IF rows = <<>> THEN 0 ELSE Head(rows)[col] + ColSum(Tail(rows), col)

\* the aggregation "mean" of one column
ColMean(rows, col) == Frac(ColSum(rows, col), Len(rows))

\* the aggregation "count" of the Date column: the rows of the group (the
\* loaders drop every row without a date, lines 50, 63, 76)
ColCount(rows) == Len(rows)

\* the zero denominator left as it is
Replace01_Missing(x) == x

\* Series.replace(0, 1) on a denominator
Replace01(x) == IF x = 0 THEN 1 ELSE x

\* the row of the result for one group: the aggregates, then the ratios
Metrics(rows) ==
    LET Total_Revenue    == ColSum(rows, "Revenue")
        Total_Cost       == ColSum(rows, "Lead_Cost")
        Total_Calls      == ColSum(rows, "Total_Calls")
        Total_Paid_Calls == ColSum(rows, "Paid_Calls")
        Total_Sales      == ColSum(rows, "Unique_Sales")
        Cost_Per         == Frac(Total_Cost, Replace01(Total_Paid_Calls))
        Revenue_Per      == Frac(Total_Revenue, Replace01(Total_Calls))
    IN  [Total_Revenue     |-> Total_Revenue,
         Avg_Daily_Revenue |-> ColMean(rows, "Revenue"),
         Total_Cost        |-> Total_Cost,
         Avg_Daily_Cost    |-> ColMean(rows, "Lead_Cost"),
         Total_Calls       |-> Total_Calls,
         Total_Paid_Calls  |-> Total_Paid_Calls,
         Total_Sales       |-> Total_Sales,
         Days_Active       |-> ColCount(rows),
         ROAS              |-> Frac(Total_Revenue, Replace01(Total_Cost)),
         Cost_Per_Call     |-> Cost_Per,
         Revenue_Per_Call  |-> Revenue_Per,
         Conversion_Rate   |-> Frac(Total_Sales * 100, Replace01(Total_Calls)),
         Profit_Per_Call   |-> FracSub(Revenue_Per, Cost_Per)]

calculate_campaign_metrics(d, a) ==
    LET filtered == FilterAgency(d, a)
    IN  [c \in GroupKeys(filtered) |-> Metrics(Group(filtered, c))]

\* the call stats = calculate_campaign_metrics(df, selected_agency)
Aggregate ==
    /\ agg_pc = "call"
    /\ grouped' = calculate_campaign_metrics(df, agency)
    /\ agg_pc' = "done"
    /\ UNCHANGED <<df, agency>>
    /\ UNCHANGED optVars

-----------------------------------------------------------------------------
(* Inputs of calculate_campaign_metrics *)

RevenueValues  == {0, 1, 2}
LeadCostValues == {0, 2}
\* (Total Calls, Paid Calls, # Unique Sales) of a daily record
CallValues     == {<<0, 0, 0>>, <<2, 1, 1>>}

DailyRecords ==
    {[Campaign |-> c, Agency |-> a, Revenue |-> r, Lead_Cost |-> l,
      Total_Calls |-> k[1], Paid_Calls |-> k[2], Unique_Sales |-> k[3]] :
        c \in Campaigns, a \in Agencies, r \in RevenueValues, l \in LeadCostValues,
        k \in CallValues}

Frames == UNION {[1..n -> DailyRecords] : n \in 0..MaxRows}

\* two daily records of one campaign: Revenue [100, 200], Lead Cost [50, 50]
ScenarioFrame ==
    << [Campaign |-> "A", Agency |-> "X", Revenue |-> 100, Lead_Cost |-> 50,
        Total_Calls |-> 10, Paid_Calls |-> 5, Unique_Sales |-> 1],
       [Campaign |-> "A", Agency |-> "X", Revenue |-> 200, Lead_Cost |-> 50,
        Total_Calls |-> 10, Paid_Calls |-> 5, Unique_Sales |-> 1] >>

OptIdle ==
    /\ campaign_stats = EmptyDict
    /\ daily_budget = 0
    /\ min_calls = 1
    /\ min_roas = Frac(1, 1)
    /\ pc = "idle"
    /\ bound = {}
    /\ profitable = <<>>
    /\ allocation = EmptyDict
    /\ remaining_budget = 0
    /\ seed_i = 0
    /\ ret = NoReturn

InitAgg ==
    /\ \/ /\ df \in Frames
          /\ agency \in {None, "All"} \cup Agencies
       \/ /\ df = ScenarioFrame
          /\ agency = None
    /\ agg_pc = "call"
    /\ grouped = EmptyDict
    /\ OptIdle

NextAgg == Aggregate

SpecAgg == InitAgg /\ [][NextAgg]_vars

-----------------------------------------------------------------------------
(* Properties of optimize_budget *)

Returned == pc = "done"
ReturnedDict == Returned /\ ret.allocation.type = "dict"
\* the returned mapping
Result == ret.allocation.items
\* the locals allocation and remaining_budget are assigned
Running == "allocation" \in bound

Row(c) == campaign_stats[c]
Ranked == {profitable[k] : k \in 1..Len(profitable)}

\* sum over the keys of a dict of calls * Cost_Per_Call
RECURSIVE Spent(_)
Spent(a) ==
    IF DOMAIN a = {} THEN 0
    ELSE LET c == CHOOSE x \in DOMAIN a : TRUE
         IN  a[c] * Row(c).Cost_Per_Call + Spent([d \in (DOMAIN a) \ {c} |-> a[d]])

\* ROAS of the campaign is below min_roas
BelowMinRoas(c) == Row(c).ROAS.num * min_roas.den < min_roas.num * Row(c).ROAS.den

\* ceil(Total_Calls / Days_Active * 1.5)
CeilCeiling(c) ==
    (3 * Row(c).Total_Calls + 2 * Row(c).Days_Active - 1) \div (2 * Row(c).Days_Active)

\* the campaign holds fewer calls than Total_Calls / Days_Active * 1.5 and one
\* more call fits into the remaining budget
CanTake(c) ==
    /\ 2 * Row(c).Days_Active * Get(allocation, c) < 3 * Row(c).Total_Calls
    /\ Row(c).Cost_Per_Call <= remaining_budget

\* C1: in every step of the seeding and of the incremental phase the remaining
\* budget is at least 0 and the calls allocated so far cost no more than
\* daily_budget; the same holds of the allocation that is returned.
C1_WithinBudget ==
    /\ Running =>
        /\ remaining_budget >= 0
        /\ Spent(allocation) <= daily_budget
    /\ ReturnedDict => Spent(Result) <= daily_budget

\* C1 witness: both campaigns hold calls and the budget is spent to the last unit
C1_Witness ==
    /\ ReturnedDict
    /\ DOMAIN Result = Campaigns
    /\ daily_budget = MaxBudget
    /\ Spent(Result) = daily_budget
    /\ \A c \in Campaigns : Row(c).Cost_Per_Call > 0

\* C2: a campaign whose ROAS is below min_roas is never a key of the
\* allocation, after any step and in the returned mapping.
C2_OnlyQualifying ==
    /\ Running => \A c \in DOMAIN allocation : ~BelowMinRoas(c)
    /\ ReturnedDict => \A c \in DOMAIN Result : ~BelowMinRoas(c)

\* C2 witness: one campaign is below min_roas and affordable, the other is
\* allocated calls
C2_Witness ==
    /\ ReturnedDict
    /\ \E c, d \in DOMAIN campaign_stats :
        /\ BelowMinRoas(c)
        /\ Row(c).Cost_Per_Call <= daily_budget
        /\ Row(c).Total_Calls > 0
        /\ d \in DOMAIN Result
        /\ ret.leftover > 0

\* C3: every campaign of the returned allocation holds at most
\* ceil(Total_Calls / Days_Active * 1.5) calls.
C3_CeilingBound ==
    ReturnedDict => \A c \in DOMAIN Result : Result[c] <= CeilCeiling(c)

\* C4: every campaign of the returned allocation holds at least min_calls calls.
C4_MinCallsFloor ==
    ReturnedDict => \A c \in DOMAIN Result : Result[c] >= min_calls

\* C5: when no campaign has ROAS >= min_roas the function returns None as the
\* allocation and daily_budget as the leftover, and no budget has been spent
\* (the locals allocation and remaining_budget were never assigned).
C5_NoneWhenNoneQualify ==
    (pc = "done" /\ \A c \in DOMAIN campaign_stats : BelowMinRoas(c)) =>
        /\ ret = [allocation |-> PyNone, leftover |-> daily_budget]
        /\ bound = {}

\* C5 witness: min_roas = 2.0, the best ROAS of the table is 1.5, the budget
\* is positive and the function has returned
C5_Witness ==
    /\ pc = "done"
    /\ min_roas = Frac(2, 1)
    /\ daily_budget > 0
    /\ DOMAIN campaign_stats = Campaigns
    /\ \E c \in Campaigns : Row(c).ROAS = Frac(3, 2)
    /\ \A c \in Campaigns : BelowMinRoas(c)

\* A is seeded before B: after the first seeding step A holds calls and B none
SeededFirstA ==
    (pc = "seed" /\ seed_i = 2) => ("A" \in DOMAIN allocation /\ "B" \notin DOMAIN allocation)

\* C7: in the scenario A is ranked and seeded before B and the returned
\* allocation has A <= 15 and B <= 7.
C7_Scenario ==
    IsScenario =>
        /\ SeededFirstA
        /\ Returned =>
            /\ profitable = <<"A", "B">>
            /\ ret.allocation.type = "dict"
            /\ Get(Result, "A") <= 15
            /\ Get(Result, "B") <= 7

\* C7, amended: in the scenario A is ranked and seeded before B and the
\* returned allocation has A <= 15 and B <= 8.
C7_ScenarioCeil ==
    IsScenario =>
        /\ SeededFirstA
        /\ Returned =>
            /\ profitable = <<"A", "B">>
            /\ ret.allocation.type = "dict"
            /\ Get(Result, "A") <= 15
            /\ Get(Result, "B") <= 8

\* C7 witness: the scenario has returned, with both ceilings reached (A = 15,
\* B = 8) and 10 of the budget left
C7_Witness ==
    /\ IsScenario
    /\ ReturnedDict
    /\ Result = [c \in {"A", "B"} |-> IF c = "A" THEN 15 ELSE 8]
    /\ ret.leftover = 10

\* C9: in the incremental phase the ranking is descending in Profit_Per_Call,
\* and a step that changes the allocation adds exactly one call to exactly one
\* campaign, which is below its ceiling and affordable while no campaign
\* ranked above it is, and deducts exactly that campaign's Cost_Per_Call.
C9_GreedyStep ==
    [][pc = "incr" =>
        /\ \A a, b \in 1..Len(profitable) :
            a < b => Row(profitable[a]).Profit_Per_Call >= Row(profitable[b]).Profit_Per_Call
        /\ (allocation' # allocation \/ remaining_budget' # remaining_budget) =>
            \E k \in 1..Len(profitable) :
                LET c == profitable[k]
                IN  /\ CanTake(c)
                    /\ \A j \in 1..(k - 1) : ~CanTake(profitable[j])
                    /\ DOMAIN allocation' = (DOMAIN allocation) \cup {c}
                    /\ allocation'[c] = Get(allocation, c) + 1
                    /\ \A d \in (DOMAIN allocation) \ {c} : allocation'[d] = allocation[d]
                    /\ remaining_budget' = remaining_budget - Row(c).Cost_Per_Call
    ]_vars

\* C9 witness: the second-ranked campaign has received an incremental call
\* while the first-ranked one, strictly more profitable, holds calls too
C9_Witness ==
    /\ pc = "incr"
    /\ Len(profitable) = 2
    /\ Row(profitable[1]).Profit_Per_Call > Row(profitable[2]).Profit_Per_Call
    /\ Get(allocation, profitable[1]) > min_calls
    /\ Get(allocation, profitable[2]) > min_calls

\* C10: the function returns, and the incremental loop is left only with a
\* remaining budget of zero or when no ranked campaign is both below its
\* ceiling and affordable.
C10_Terminates ==
    /\ <>(pc = "done")
    /\ [][(pc = "incr" /\ pc' = "done") =>
            \/ remaining_budget = 0
            \/ \A c \in Ranked : ~CanTake(c)]_vars

\* C10 witness: a campaign with Cost_Per_Call = 0 was filled to its ceiling and
\* the function returned with budget left over
C10_Witness ==
    /\ ReturnedDict
    /\ ret.leftover > 0
    /\ \E c \in DOMAIN Result :
        /\ Row(c).Cost_Per_Call = 0
        /\ Result[c] > min_calls

-----------------------------------------------------------------------------
(* Properties of calculate_campaign_metrics *)

\* the positions of the records of a campaign that pass the agency filter
RowsOf(c) ==
    {k \in 1..Len(df) :
        /\ df[k].Campaign = c
        /\ (agency \in {None, "All"} \/ df[k].Agency = agency)}

RECURSIVE SumOver(_, _)
SumOver(K, col) ==
    IF K = {} THEN 0
    ELSE LET k == CHOOSE x \in K : TRUE IN df[k][col] + SumOver(K \ {k}, col)

\* C8: each campaign with records gets Total_Revenue = the sum of its Revenue
\* values, Total_Cost = the sum of its Lead Cost values, Days_Active = the
\* number of its records and ROAS = Total_Revenue / Total_Cost with 1 for a
\* Total_Cost of 0; Revenue [100, 200] with Lead Cost [50, 50] gives 300, 100,
\* ROAS 3 and 2 days.
C8_Aggregates ==
    agg_pc = "done" =>
        /\ DOMAIN grouped = {c \in Campaigns : RowsOf(c) # {}}
        /\ \A c \in DOMAIN grouped :
            LET g == grouped[c]
                denominator == IF g.Total_Cost = 0 THEN 1 ELSE g.Total_Cost
            IN  /\ g.Total_Revenue = SumOver(RowsOf(c), "Revenue")
                /\ g.Total_Cost = SumOver(RowsOf(c), "Lead_Cost")
                /\ g.Days_Active = Cardinality(RowsOf(c))
                /\ g.ROAS.den > 0
                /\ g.ROAS.num * denominator = g.Total_Revenue * g.ROAS.den
        /\ df = ScenarioFrame =>
            /\ grouped["A"].Total_Revenue = 300
            /\ grouped["A"].Total_Cost = 100
            /\ grouped["A"].ROAS.num = 3 * grouped["A"].ROAS.den
            /\ grouped["A"].Days_Active = 2

\* C8 witness: a campaign with two records, revenue and a Total_Cost of 0
C8_Witness ==
    /\ agg_pc = "done"
    /\ \E c \in DOMAIN grouped :
        /\ grouped[c].Days_Active = 2
        /\ grouped[c].Total_Cost = 0
        /\ grouped[c].Total_Revenue > 0

=============================================================================
